---------------------------- MODULE Spec2Model ----------------------------
(***************************************************************************)
(* Sequential pallet-grouping heuristic for the integrated packing and     *)
(* routing problem (Scripts/bpcvrp_testing/solvers/bpcsdvrp_sequential.py) *)
(* with the grouping of its sibling module bpcvrp_grouped_heuristic.py.    *)
(*                                                                         *)
(* Python lists are modelled as sequences: the Python element lst[i] is    *)
(* the sequence element lst[i + 1].  A Python dict is a function whose     *)
(* DOMAIN is the set of keys.  The distance matrix is a function over      *)
(* 0..N (index 0 = depot), used with the Python indices.                   *)
(***************************************************************************)
EXTENDS Integers, Sequences, FiniteSets, TLC

VARIABLES
    pc,             \* the position of the caller
    call,           \* arguments of a direct call of a function
    ret,            \* what the direct call returned
    inst,           \* the BPCSDVRPInstance handed to the pipeline
    cfg,            \* treat_equal_capacity_as_fixed and fallback_bpp of the run
    packing_rows,   \* Stage 1: the CustomerPacking of the customers solved so far
    pallet_counts,  \* Stage 1: their pallet counts
    grouping,       \* Stage 2: the GroupingResult
    vrp_inst,       \* Stage 3: the reduced VRPInstance, None when not built
    vrp_res,        \* Stage 3: the routing SolveResult, None when not solved
    result,         \* the SolveResult the pipeline returns (in the direct
                    \* calls: the PalletisationStats of the sibling)
    calls           \* the solver calls made so far, in order

harness_vars == <<call, ret>>
pipeline_vars ==
    <<inst, cfg, packing_rows, pallet_counts, grouping, vrp_inst, vrp_res,
      result, calls>>
vars == <<pc, harness_vars, pipeline_vars>>

\* a variable not assigned yet
Unset == [unset |-> TRUE]

\* Optional[T]: None, or a value
None == <<>>
Some(x) == <<x>>
Get(opt) == opt[1]

----------------------------------------------------------------------------
(* Bounds of the model.                                                    *)

MaxN == 3          \* customers of an instance
MaxPallets == 5    \* largest pallet count of a customer
MaxCap == 2        \* largest vehicle capacity
MaxDist == 2       \* largest spacing of neighbouring nodes
MaxSkew == 1       \* largest one-way surcharge of a distance
MaxCust == 2       \* customers of an instance run through the whole pipeline
MaxItems == 3      \* items of a customer handed to the packing resolver alone
MaxSize == 3       \* largest item size handed to the packing resolver alone
MaxBin == 3        \* largest pallet capacity handed to the packing resolver alone

----------------------------------------------------------------------------
(* Input domains.                                                          *)

\* Sequences over S of length 0..n
RECURSIVE SeqsUpTo(_, _)
SeqsUpTo(S, n) ==
    IF n = 0 THEN {<<>>}
    ELSE LET shorter == SeqsUpTo(S, n - 1)
         IN shorter \cup {Append(s, x) : s \in {t \in shorter : Len(t) = n - 1}, x \in S}

\* A distance matrix over the nodes 0..n: nodes spaced u apart on a line, v
\* added to every leg that runs from a lower to a higher node, zero diagonal.
\* v = 0 gives the symmetric matrices the generators build.
DistanceOf(n, u, v) ==
    [i \in 0..n |-> [j \in 0..n |->
        IF i = j THEN 0
        ELSE u * (IF i < j THEN j - i ELSE i - j) + (IF i < j THEN v ELSE 0)]]

Distances(n) == {DistanceOf(n, u, v) : u \in 1..MaxDist, v \in 0..MaxSkew}

\* pallet counts and capacities a caller may pass, malformed ones included
PalletValues == (-1)..MaxPallets
CapacityValues == (-1)..MaxCap

----------------------------------------------------------------------------
(* Python integer arithmetic.                                              *)

\* lst[i] of a Python list
PyAt(lst, i) == lst[i + 1]

\* a // b, the floor of a / b, for b # 0
PyFloorDiv(a, b) == IF b > 0 THEN a \div b ELSE (0 - a) \div (0 - b)

\* a % b, with the sign of b, for b # 0
PyMod(a, b) == IF b > 0 THEN a % b ELSE 0 - ((0 - a) % (0 - b))

\* the sum of f over the set S
RECURSIVE SumOver(_, _)
SumOver(f, S) ==
    IF S = {} THEN 0
    ELSE LET x == CHOOSE y \in S : TRUE IN f[x] + SumOver(f, S \ {x})

RECURSIVE SumSeq(_)
SumSeq(s) == IF s = <<>> THEN 0 ELSE s[1] + SumSeq(Tail(s))

----------------------------------------------------------------------------
(* Stage 2: group_pallet_demands.                                          *)

\* the accumulators before the loop
EmptyGrouping ==
    [fixed_cost |-> 0,
     full_trips |-> <<>>,
     full_trip_routes |-> <<>>,
     remaining_customers |-> <<>>,
     remaining_demands |-> <<>>,
     orig_customer_of_node |-> <<>>]

\* the customer is kept whole as one routed demand
KeptWhole_Strict(p, Q, flag) == p < Q
KeptWhole_IgnoreFlag(p, Q, flag) == p <= Q
KeptWhole(p, Q, flag) == p <= Q /\ ~(flag /\ p = Q)

\* the customer's pallet count equals the capacity and the policy fixes it
EqualFixed(p, Q, flag) == flag /\ p = Q

Trips_One(p, Q, flag) == 1
Trips(p, Q, flag) ==
    IF EqualFixed(p, Q, flag) THEN 1
    ELSE IF Q > 0 THEN PyFloorDiv(p, Q) ELSE 0

Remainder_Subtract(p, Q, flag) == p - Q
Remainder_Dropped(p, Q, flag) == 0
Remainder(p, Q, flag) ==
    IF EqualFixed(p, Q, flag) THEN 0
    ELSE IF Q > 0 THEN PyMod(p, Q) ELSE p

TripCost_TwiceOut(distance, c) == 2 * distance[0][c]
TripCost(distance, c) == distance[0][c] + distance[c][0]

\* the three appends of a residual entry
AppendResidual_Prepend(acc, c, d) ==
    [acc EXCEPT !.remaining_customers = <<c>> \o @,
                !.remaining_demands = <<d>> \o @,
                !.orig_customer_of_node = <<c>> \o @]
AppendResidual_ZeroBased(acc, c, d) ==
    [acc EXCEPT !.remaining_customers = Append(@, c),
                !.remaining_demands = Append(@, d),
                !.orig_customer_of_node = Append(@, c - 1)]
AppendResidual(acc, c, d) ==
    [acc EXCEPT !.remaining_customers = Append(@, c),
                !.remaining_demands = Append(@, d),
                !.orig_customer_of_node = Append(@, c)]

\* the body of "if trips > 0"
RecordFullTrips(acc, c, trips, distance, Q) ==
    LET trip_cost == TripCost(distance, c)
    IN [acc EXCEPT !.fixed_cost = @ + trips * trip_cost,
                   !.full_trips = (c :> trips) @@ @,
                   !.full_trip_routes = Append(@,
                        [customer |-> c,
                         trips |-> trips,
                         pallets_per_trip |-> Q,
                         trip_cost |-> trip_cost,
                         total_cost |-> trips * trip_cost,
                         route |-> <<0, c, 0>>])]

HasFullTrips_Always(trips) == TRUE
HasFullTrips(trips) == trips > 0

\* one iteration of the loop over the customers
GroupCustomer(acc, c, p, distance, Q, flag) ==
    IF KeptWhole(p, Q, flag)
    THEN IF p > 0 THEN AppendResidual(acc, c, p) ELSE acc
    ELSE IF p = 0 THEN acc
    ELSE LET trips == Trips(p, Q, flag)
             rem == Remainder(p, Q, flag)
             acc1 == IF HasFullTrips(trips)
                     THEN RecordFullTrips(acc, c, trips, distance, Q)
                     ELSE acc
         IN IF rem > 0 THEN AppendResidual(acc1, c, rem) ELSE acc1

\* the loop over the customers c, c + 1, ..., len(counts)
RECURSIVE GroupFrom(_, _, _, _, _, _)
GroupFrom(acc, c, counts, distance, Q, flag) ==
    IF c > Len(counts) THEN acc
    ELSE GroupFrom(GroupCustomer(acc, c, counts[c], distance, Q, flag),
                   c + 1, counts, distance, Q, flag)

\* counts is the argument pallet_counts, flag is treat_equal_capacity_as_fixed
group_pallet_demands(counts, distance, vehicle_capacity, flag) ==
    GroupFrom(EmptyGrouping, 1, counts, distance, vehicle_capacity, flag)

----------------------------------------------------------------------------
(* Direct calls of group_pallet_demands on every input of the domains.     *)

GroupInit ==
    /\ \E pcs \in SeqsUpTo(PalletValues, MaxN), Q \in CapacityValues, flag \in BOOLEAN :
         \E d \in Distances(Len(pcs)) :
            call = [pallet_counts |-> pcs,
                    distance |-> d,
                    vehicle_capacity |-> Q,
                    treat_equal_capacity_as_fixed |-> flag]
    /\ pc = "call_group"
    /\ ret = Unset
    /\ inst = Unset /\ cfg = Unset /\ grouping = Unset /\ result = Unset
    /\ packing_rows = <<>> /\ pallet_counts = <<>> /\ calls = <<>>
    /\ vrp_inst = None /\ vrp_res = None

CallGroup ==
    /\ pc = "call_group"
    /\ pc' = "group_returned"
    /\ ret' = group_pallet_demands(call.pallet_counts, call.distance,
                                   call.vehicle_capacity,
                                   call.treat_equal_capacity_as_fixed)
    /\ UNCHANGED <<call, pipeline_vars>>


----------------------------------------------------------------------------
(* The external solvers (MiniZincRunner.solve_instance).                   *)

\* the elapsed times a solver call reports
Durations == {1}

\* statuses of a solve without a solution
NoSolution(status, t) ==
    [status |-> status, has_solution |-> FALSE, objective |-> None,
     solution |-> None, time |-> t]

CeilDiv(a, b) == (a + b - 1) \div b

\* the items i of sizes with f[i] = b fit one pallet, for every pallet b
FitsBins(sizes, cap, n, f) ==
    \A b \in 1..n :
        SumOver([i \in 1..Len(sizes) |-> sizes[i]],
                {i \in 1..Len(sizes) : f[i] = b}) <= cap

\* the assignments of the items to exactly n pallets of capacity cap
PackingsInto(sizes, cap, n) ==
    {f \in [1..Len(sizes) -> 1..n] :
        /\ {f[i] : i \in 1..Len(sizes)} = 1..n
        /\ FitsBins(sizes, cap, n, f)}

\* the pallet counts a packing of the items can use
FeasibleCounts(sizes, cap) ==
    {n \in 0..Len(sizes) : PackingsInto(sizes, cap, n) # {}}

\* the true minimum number of pallets (sizes holds no item above cap)
MinBins(sizes, cap) ==
    CHOOSE n \in FeasibleCounts(sizes, cap) :
        \A m \in FeasibleCounts(sizes, cap) : n <= m

\* the outputs a packing model file can declare: the count as
\* solution["nBins"], the count as the objective, the bin of each item as
\* solution["b"]
BppModels == [nBins : BOOLEAN, objective : BOOLEAN, b : BOOLEAN]

\* the answer of the packing solver that found a packing into n pallets,
\* run on a model with the outputs of m (one packing stands for all
\* packings into n pallets)
BppSolutions(sizes, cap, n, m) ==
    {[status |-> IF n = MinBins(sizes, cap) THEN "OPTIMAL_SOLUTION" ELSE "SATISFIED",
      has_solution |-> TRUE,
      objective |-> IF m.objective THEN Some(n) ELSE None,
      solution |->
         Some([nBins |-> IF m.nBins THEN Some(n) ELSE None,
               b |-> IF m.b
                     THEN Some(LET f == CHOOSE g \in PackingsInto(sizes, cap, n) : TRUE
                               IN [i \in 1..Len(sizes) |-> f[i]])
                     ELSE None]),
      time |-> t] : t \in Durations}

\* what the packing solver can answer for a non-empty item list
BppResponses(sizes, cap, m) ==
    {NoSolution("UNKNOWN", t) : t \in Durations}
    \cup UNION {BppSolutions(sizes, cap, n, m) : n \in FeasibleCounts(sizes, cap)}

----------------------------------------------------------------------------
(* Stage 1: solve_bpp_for_customer.                                        *)

\* the instance handed to the packing solver
BPPInstance(item_sizes, bin_capacity) ==
    [n |-> Len(item_sizes), capacity |-> bin_capacity, sizes |-> item_sizes]

\* row[:k] of a Python list
PySlicePrefix(row, k) ==
    IF k >= 0
    THEN SubSeq(row, 1, IF k < Len(row) THEN k ELSE Len(row))
    ELSE SubSeq(row, 1, IF Len(row) + k > 0 THEN Len(row) + k ELSE 0)

\* [int(x) for x in SizesOfItems[c - 1][:k] if int(x) > 0]
SizesRow_FirstCustomer(instance, c) ==
    LET k == PyAt(instance.ItemsPerCustomer, 0)
        positive(x) == x > 0
    IN SelectSeq(PySlicePrefix(PyAt(instance.SizesOfItems, 0), k), positive)
SizesRow_WholeRow(instance, c) ==
    LET positive(x) == x > 0
    IN SelectSeq(PyAt(instance.SizesOfItems, c - 1), positive)
SizesRow(instance, c) ==
    LET k == PyAt(instance.ItemsPerCustomer, c - 1)
        positive(x) == x > 0
    IN SelectSeq(PySlicePrefix(PyAt(instance.SizesOfItems, c - 1), k), positive)

\* the pallet count the solve result exposes: solution["nBins"], else the
\* objective (an integral float), else None
extract_nbins_ObjectiveOnly(res) ==
    IF res.objective # None THEN res.objective ELSE None
extract_nbins(res) ==
    IF res.solution # None /\ Get(res.solution).nBins # None
    THEN Get(res.solution).nBins
    ELSE IF res.objective # None THEN res.objective
    ELSE None

\* the indices of a sequence, as a sequence
RECURSIVE Indices(_)
Indices(n) == IF n = 0 THEN <<>> ELSE Append(Indices(n - 1), n)

\* pallet -> the 1-based indices of its items, in item order
reconstruct_pallets(bin_of_item, pallets) ==
    [g \in 1..pallets |->
        LET in_g(i) == bin_of_item[i] = g
        IN SelectSeq(Indices(Len(bin_of_item)), in_g)]

\* len(item_sizes) == 0: the customer is answered without a solver call
ShortCircuits_Never(item_sizes) == FALSE
ShortCircuits_Always(item_sizes) == TRUE
ShortCircuits(item_sizes) == Len(item_sizes) = 0

FallbackCount_FloorVolume(item_sizes, bin_capacity, fallback) ==
    IF fallback = "volume_lb"
    THEN PyFloorDiv(SumSeq(item_sizes), bin_capacity)
    ELSE Len(item_sizes)
FallbackCount_AlwaysVolume(item_sizes, bin_capacity, fallback) ==
    CeilDiv(SumSeq(item_sizes), bin_capacity)
FallbackCount(item_sizes, bin_capacity, fallback) ==
    IF fallback = "volume_lb"
    THEN CeilDiv(SumSeq(item_sizes), bin_capacity)
    ELSE Len(item_sizes)

\* f"{res.status} (fallback={fallback})"
FallbackStatus_Plain(status, fallback) == status
FallbackStatus(status, fallback) == status \o " (fallback=" \o fallback \o ")"

\* the CustomerPacking of a customer whose solver call answered res (res is
\* not read when item_sizes is empty: the solver is not called)
solve_bpp_for_customer(customer, item_sizes, bin_capacity, fallback, res) ==
    IF ShortCircuits(item_sizes)
    THEN [customer |-> customer, item_sizes |-> <<>>, pallets |-> 0,
          bpp_status |-> "SKIPPED_EMPTY", bpp_time |-> 0,
          bin_of_item |-> Some(<<>>), pallets_items |-> Some(<<>>)]
    ELSE LET nbins == extract_nbins(res)
         IN IF nbins = None
            THEN [customer |-> customer, item_sizes |-> item_sizes,
                  pallets |-> FallbackCount(item_sizes, bin_capacity, fallback),
                  bpp_status |-> FallbackStatus(res.status, fallback),
                  bpp_time |-> res.time,
                  bin_of_item |-> None, pallets_items |-> None]
            ELSE LET has_b == res.solution # None /\ Get(res.solution).b # None
                 IN [customer |-> customer, item_sizes |-> item_sizes,
                     pallets |-> Get(nbins),
                     bpp_status |-> res.status,
                     bpp_time |-> res.time,
                     bin_of_item |-> IF has_b THEN Get(res.solution).b ELSE None,
                     pallets_items |->
                        IF has_b
                        THEN Some(reconstruct_pallets(Get(Get(res.solution).b),
                                                      Get(nbins)))
                        ELSE None]

----------------------------------------------------------------------------
(* Direct calls of solve_bpp_for_customer on every input of the domains.   *)

PackInit ==
    /\ call \in [customer : {1},
                 item_sizes : SeqsUpTo(1..MaxSize, MaxItems),
                 bin_capacity : 1..MaxBin,
                 bpp_model_path : BppModels,
                 fallback : {"items_ub", "volume_lb"}]
    /\ pc = "call_pack"
    /\ ret = Unset
    /\ inst = Unset /\ cfg = Unset /\ grouping = Unset /\ result = Unset
    /\ packing_rows = <<>> /\ pallet_counts = <<>> /\ calls = <<>>
    /\ vrp_inst = None /\ vrp_res = None

\* the call returns at once for an empty list
CallPackEmpty ==
    /\ pc = "call_pack"
    /\ ShortCircuits(call.item_sizes)
    /\ pc' = "pack_returned"
    /\ ret' = solve_bpp_for_customer(call.customer, call.item_sizes,
                  call.bin_capacity, call.fallback, NoSolution("UNKNOWN", 0))
    /\ UNCHANGED <<call, pipeline_vars>>

\* the call asks the solver and returns the CustomerPacking of its answer
CallPackSolve ==
    /\ pc = "call_pack"
    /\ ~ShortCircuits(call.item_sizes)
    /\ \E res \in BppResponses(call.item_sizes, call.bin_capacity,
                                call.bpp_model_path) :
          /\ ret' = solve_bpp_for_customer(call.customer, call.item_sizes,
                        call.bin_capacity, call.fallback, res)
          /\ calls' = Append(calls, [solver |-> "bpp", customer |-> call.customer,
                                     input |-> BPPInstance(call.item_sizes,
                                                           call.bin_capacity),
                                     res |-> res])
    /\ pc' = "pack_returned"
    /\ UNCHANGED <<call, inst, cfg, packing_rows, pallet_counts, grouping,
                   vrp_inst, vrp_res, result>>

PackNext == CallPackEmpty \/ CallPackSolve

PackSpec == PackInit /\ [][PackNext]_vars

----------------------------------------------------------------------------
(* Stage 3: build_reduced_vrp_instance and the routing solver.             *)

BuildReduced_Transposed(original_distance, remaining_customers, remaining_demands, vehicle_capacity) ==
    LET nodes == <<0>> \o remaining_customers
        N_rem == Len(remaining_customers)
    IN [N |-> N_rem,
        Capacity |-> vehicle_capacity,
        Demand |-> remaining_demands,
        Distance |-> [i \in 0..N_rem |-> [j \in 0..N_rem |->
                        original_distance[PyAt(nodes, j)][PyAt(nodes, i)]]]]
build_reduced_vrp_instance(original_distance, remaining_customers, remaining_demands, vehicle_capacity) ==
    LET nodes == <<0>> \o remaining_customers
        N_rem == Len(remaining_customers)
    IN [N |-> N_rem,
        Capacity |-> vehicle_capacity,
        Demand |-> remaining_demands,
        Distance |-> [i \in 0..N_rem |-> [j \in 0..N_rem |->
                        original_distance[PyAt(nodes, i)][PyAt(nodes, j)]]]]

\* VRPInstance.to_dict
to_dict(vi) ==
    [N |-> vi.N, Capacity |-> vi.Capacity, Demand |-> vi.Demand,
     Distance |-> vi.Distance]

RECURSIVE Perms(_)
Perms(S) ==
    IF S = {} THEN {<<>>}
    ELSE UNION {{<<x>> \o q : q \in Perms(S \ {x})} : x \in S}

\* the ways to cut a sequence of nodes into routes
RECURSIVE Splits(_)
Splits(seq) ==
    IF seq = <<>> THEN {{}}
    ELSE UNION {{{SubSeq(seq, 1, i)} \cup rest :
                    rest \in Splits(SubSeq(seq, i + 1, Len(seq)))} :
                i \in 1..Len(seq)}

\* depot -> route[1] -> ... -> route[last] -> depot
RouteCost(D, route) ==
    D[0][route[1]]
    + SumOver([i \in 1..(Len(route) - 1) |-> D[route[i]][route[i + 1]]],
              1..(Len(route) - 1))
    + D[route[Len(route)]][0]

RouteSetCost(D, routes) == SumOver([r \in routes |-> RouteCost(D, r)], routes)

RouteLoad(demand, route) ==
    SumOver([i \in 1..Len(route) |-> demand[route[i]]], 1..Len(route))

\* the route sets that visit every node of the instance once and load no
\* vehicle beyond Capacity
FeasibleRouteSets(vi) ==
    {routes \in UNION {Splits(q) : q \in Perms(1..vi.N)} :
        \A r \in routes : RouteLoad(vi.Demand, r) <= vi.Capacity}

\* the answer of the routing solver that found the route set routes
VrpSolution(vi, routes, with_objective, t) ==
    [status |->
        IF \A other \in FeasibleRouteSets(vi) :
              RouteSetCost(vi.Distance, routes) <= RouteSetCost(vi.Distance, other)
        THEN "OPTIMAL_SOLUTION" ELSE "SATISFIED",
     has_solution |-> TRUE,
     objective |-> IF with_objective
                   THEN Some(RouteSetCost(vi.Distance, routes)) ELSE None,
     solution |-> Some([routes |-> routes]),
     time |-> t]

\* What the routing solver can answer for a reduced instance: nothing, a
\* feasible route set with its cost as the objective, or a route set
\* without an objective (one stands for all).
VrpResponses(vi) ==
    {NoSolution(st, t) : st \in {"UNKNOWN", "UNSATISFIABLE"}, t \in Durations}
    \cup {VrpSolution(vi, routes, TRUE, t) :
             routes \in FeasibleRouteSets(vi), t \in Durations}
    \cup {VrpSolution(vi, CHOOSE routes \in FeasibleRouteSets(vi) : TRUE, FALSE, t) :
             t \in {u \in Durations : FeasibleRouteSets(vi) # {}}}

----------------------------------------------------------------------------
(* The instances run through the pipeline.                                 *)

\* the item lists a customer may order, and the pallet capacities
OrderItems == {<<>>, <<1, 1>>, <<2, 2, 2>>}
BinCapacities == {3}

\* distances that differ by direction, so that a transposed lookup shows
PipelineDistances(n) == {DistanceOf(n, 2, 1)}

\* max(ItemsPerCustomer), at least 1
MaxItemsOf(orders) ==
    LET lens == {Len(orders[c]) : c \in 1..Len(orders)} \cup {1}
    IN CHOOSE m \in lens : \A l \in lens : l <= m

\* the instance of the customers' orders: every row of SizesOfItems holds
\* the items of the customer, 0-padded to maxItemsPerCustomer
InstanceOf(orders, Q, d, bc) ==
    [N |-> Len(orders),
     Capacity |-> Q,
     Distance |-> d,
     binCapacity |-> bc,
     ItemsPerCustomer |-> [c \in 1..Len(orders) |-> Len(orders[c])],
     maxItemsPerCustomer |-> MaxItemsOf(orders),
     SizesOfItems |-> [c \in 1..Len(orders) |->
                        [i \in 1..MaxItemsOf(orders) |->
                            IF i <= Len(orders[c]) THEN orders[c][i] ELSE 0]]]

\* Instances no generator builds but the dataclass accepts: a negative
\* Capacity, an item above binCapacity, a row shorter than
\* maxItemsPerCustomer, and rows with a zero among the first
\* ItemsPerCustomer entries or a size after them.
NegativeCapacityInstance == InstanceOf(<<<<1>>>>, -1, DistanceOf(1, 2, 1), 3)
OversizeItemInstance == InstanceOf(<<<<4>>>>, 1, DistanceOf(1, 2, 1), 3)
RaggedInstance ==
    [InstanceOf(<<<<1, 1>>, <<1>>>>, 1, DistanceOf(2, 2, 1), 3)
        EXCEPT !.SizesOfItems = <<<<1, 1>>, <<1>>>>]
StrayEntriesInstance ==
    [InstanceOf(<<<<2, 0, 1>>, <<1, 2, 2>>>>, 1, DistanceOf(2, 2, 1), 3)
        EXCEPT !.ItemsPerCustomer = <<3, 1>>]

IrregularInstances ==
    {NegativeCapacityInstance, OversizeItemInstance, RaggedInstance,
     StrayEntriesInstance}

----------------------------------------------------------------------------
(* solve_bpcsdvrp_grouped_heuristic.                                       *)

Init ==
    /\ \/ \E orders \in SeqsUpTo(OrderItems, MaxCust), Q \in 1..MaxCap,
             bc \in BinCapacities :
             \E d \in PipelineDistances(Len(orders)) :
                inst = InstanceOf(orders, Q, d, bc)
       \/ inst \in IrregularInstances
    /\ cfg \in [bpp_model_path : BppModels,
                treat_equal_capacity_as_fixed : BOOLEAN,
                fallback_bpp : {"items_ub", "volume_lb"}]
    /\ pc = "stage1"
    /\ packing_rows = <<>> /\ pallet_counts = <<>> /\ calls = <<>>
    /\ grouping = Unset /\ result = Unset
    /\ vrp_inst = None /\ vrp_res = None
    /\ call = Unset /\ ret = Unset

\* for c in range(1, inst.N + 1): the loop has run for every customer
LoopFinished_AfterFirst(rows, n) == Len(rows) >= 1 \/ n <= 0
LoopFinished(rows, n) == Len(rows) >= n

\* one iteration of the Stage 1 loop: customer c = len(packing_rows) + 1
SolveBpp ==
    /\ pc = "stage1"
    /\ ~LoopFinished(packing_rows, inst.N)
    /\ LET c == Len(packing_rows) + 1
           sizes_row == SizesRow(inst, c)
       IN \/ /\ ShortCircuits(sizes_row)
             /\ LET pack == solve_bpp_for_customer(c, sizes_row, inst.binCapacity,
                                cfg.fallback_bpp, NoSolution("UNKNOWN", 0))
                IN /\ packing_rows' = Append(packing_rows, pack)
                   /\ pallet_counts' = Append(pallet_counts, pack.pallets)
             /\ UNCHANGED calls
          \/ /\ ~ShortCircuits(sizes_row)
             /\ \E res \in BppResponses(sizes_row, inst.binCapacity,
                                         cfg.bpp_model_path) :
                   LET pack == solve_bpp_for_customer(c, sizes_row,
                                    inst.binCapacity, cfg.fallback_bpp, res)
                   IN /\ packing_rows' = Append(packing_rows, pack)
                      /\ pallet_counts' = Append(pallet_counts, pack.pallets)
                      /\ calls' = Append(calls, [solver |-> "bpp", customer |-> c,
                                                 input |-> BPPInstance(sizes_row,
                                                              inst.binCapacity),
                                                 res |-> res])
    /\ UNCHANGED <<pc, inst, cfg, grouping, vrp_inst, vrp_res, result,
                   harness_vars>>

\* the caller's pallet_counts list after group_pallet_demands has gone
\* through it with enumerate: the function assigns to none of its entries
CountsAfterGrouping_Zeroed(counts) == [c \in 1..Len(counts) |-> 0]
CountsAfterGrouping(counts) == counts

\* Stage 2, once the loop has run for every customer
GroupStage ==
    /\ pc = "stage1"
    /\ LoopFinished(packing_rows, inst.N)
    /\ grouping' = group_pallet_demands(pallet_counts, inst.Distance, inst.Capacity,
                                        cfg.treat_equal_capacity_as_fixed)
    /\ pallet_counts' = CountsAfterGrouping(pallet_counts)
    /\ pc' = "stage3"
    /\ UNCHANGED <<inst, cfg, packing_rows, vrp_inst, vrp_res,
                   result, calls, harness_vars>>

\* len(grouping.remaining_customers) > 0
RoutingNeeded_Always(g) == TRUE
RoutingNeeded(g) == Len(g.remaining_customers) > 0

\* Stage 3 with residual demand: the reduced instance
BuildReduced ==
    /\ pc = "stage3"
    /\ RoutingNeeded(grouping)
    /\ vrp_inst' = Some(build_reduced_vrp_instance(inst.Distance,
                             grouping.remaining_customers,
                             grouping.remaining_demands, inst.Capacity))
    /\ pc' = "vrp_solve"
    /\ UNCHANGED <<inst, cfg, packing_rows, pallet_counts, grouping, vrp_res,
                   result, calls, harness_vars>>

\* t1 - t0: the time spent in the solver calls
Elapsed(rows, routing) ==
    SumOver([i \in 1..Len(rows) |-> rows[i].bpp_time], 1..Len(rows))
    + (IF routing = None THEN 0 ELSE Get(routing).time)

\* the entry "vrp_result" of the solution
VrpResultDict(routing) ==
    IF routing = None THEN None
    ELSE Some([status |-> Get(routing).status,
               has_solution |-> Get(routing).has_solution,
               objective |-> Get(routing).objective,
               time |-> Get(routing).time,
               solution |-> Get(routing).solution])

\* vrp_res.status if vrp_res else "UNKNOWN"
FailureStatus_Unknown(routing) == "UNKNOWN"
FailureStatus(routing) ==
    IF routing # None THEN Get(routing).status ELSE "UNKNOWN"

\* the SolveResult of a run whose routing stage failed
FailureResult(rows, g, vi, routing) ==
    [status |-> FailureStatus(routing),
     has_solution |-> FALSE,
     objective |-> None,
     solution |->
        [packing |-> rows,
         grouping |-> g,
         vrp_instance |-> IF vi # None THEN Some(to_dict(Get(vi))) ELSE None,
         vrp_result |-> VrpResultDict(routing),
         objective_breakdown |->
            [fixed_cost |-> g.fixed_cost,
             routing_objective |-> None,
             total_objective |-> None]],
     time |-> Elapsed(rows, routing),
     raw_result |-> [packing |-> rows, grouping |-> g, vrp_result |-> routing]]

\* float(fixed_cost) + float(routing_objective)
TotalObjective_RoutingOnly(fixed_cost, routing_objective) == routing_objective
TotalObjective(fixed_cost, routing_objective) == fixed_cost + routing_objective

\* the SolveResult of a run that routed the residual demand or had none
SuccessResult(rows, g, vi, routing) ==
    LET routing_objective ==
            IF routing = None THEN 0 ELSE Get(Get(routing).objective)
        total_objective == TotalObjective(g.fixed_cost, routing_objective)
    IN [status |-> IF routing # None THEN Get(routing).status ELSE "SATISFIED",
        has_solution |-> TRUE,
        objective |-> Some(total_objective),
        solution |->
           [packing |-> rows,
            grouping |-> g,
            vrp_instance |-> IF vi # None THEN Some(to_dict(Get(vi))) ELSE None,
            vrp_result |-> VrpResultDict(routing),
            objective_breakdown |->
               [fixed_cost |-> g.fixed_cost,
                routing_objective |-> Some(routing_objective),
                total_objective |-> Some(total_objective)]],
        time |-> Elapsed(rows, routing),
        raw_result |-> [packing |-> rows, grouping |-> g, vrp_result |-> routing]]

\* vrp_res.has_solution and vrp_res.objective is not None
RoutingUsable_AnySolution(res) == res.has_solution
RoutingUsable(res) == res.has_solution /\ res.objective # None

\* Stage 3: the routing solver answers; a usable answer goes on to the
\* composition, any other is returned as a failure
SolveVrp ==
    /\ pc = "vrp_solve"
    /\ \E res \in VrpResponses(Get(vrp_inst)) :
          /\ vrp_res' = Some(res)
          /\ calls' = Append(calls, [solver |-> "vrp", customer |-> 0,
                                     input |-> Get(vrp_inst), res |-> res])
          /\ IF RoutingUsable(res)
             THEN /\ pc' = "compose"
                  /\ UNCHANGED result
             ELSE /\ pc' = "done"
                  /\ result' = FailureResult(packing_rows, grouping, vrp_inst,
                                             Some(res))

    /\ UNCHANGED <<inst, cfg, packing_rows, pallet_counts, grouping, vrp_inst,
                   harness_vars>>

\* the total objective and the returned SolveResult, after routing or
\* without it when no residual demand is left
Compose ==
    /\ \/ pc = "compose"
       \/ pc = "stage3" /\ ~RoutingNeeded(grouping)
    /\ result' = SuccessResult(packing_rows, grouping, vrp_inst, vrp_res)
    /\ pc' = "done"
    /\ UNCHANGED <<inst, cfg, packing_rows, pallet_counts, grouping, vrp_inst,
                   vrp_res, calls, harness_vars>>

Next == SolveBpp \/ GroupStage \/ BuildReduced \/ SolveVrp \/ Compose

Spec == Init /\ [][Next]_vars

\* every statement of the function is reached once the one before it has
\* finished, and every solver call returns
FairSpec == Spec /\ WF_vars(Next)

----------------------------------------------------------------------------
(* run_grouped_heuristic_over_seeds: one run of the pipeline after         *)
(* another, on a list of instances, under one configuration.               *)

SeedInstances ==
    {InstanceOf(<<>>, 1, DistanceOf(0, 2, 1), 3),
     InstanceOf(<<<<1, 1>>>>, 1, DistanceOf(1, 2, 1), 3),
     InstanceOf(<<<<>>, <<2, 2, 2>>>>, 2, DistanceOf(2, 2, 1), 3)}

SeedLists == {<<a, b>> : a, b \in SeedInstances}

\* packing_rows: List[CustomerPacking] = [] at the start of a run
FreshPackings_Kept(previous) == previous
FreshPackings(previous) == <<>>

SeedsInit ==
    /\ call \in [instances : SeedLists]
    /\ cfg \in [bpp_model_path : BppModels, treat_equal_capacity_as_fixed : BOOLEAN,
                fallback_bpp : {"items_ub", "volume_lb"}]
    /\ ret = <<>>
    /\ pc = "next_run"
    /\ inst = Unset /\ grouping = Unset /\ result = Unset
    /\ packing_rows = <<>> /\ pallet_counts = <<>> /\ calls = <<>>
    /\ vrp_inst = None /\ vrp_res = None

\* for inst in instances: the call of the pipeline with its fresh locals
StartRun ==
    /\ pc = "next_run"
    /\ Len(ret) < Len(call.instances)
    /\ inst' = call.instances[Len(ret) + 1]
    /\ packing_rows' = FreshPackings(packing_rows)
    /\ pallet_counts' = <<>>
    /\ grouping' = Unset /\ result' = Unset
    /\ vrp_inst' = None /\ vrp_res' = None
    /\ calls' = <<>>
    /\ pc' = "stage1"
    /\ UNCHANGED <<cfg, call, ret>>

\* results.append(res), kept with the solver answers of the run
AppendResult ==
    /\ pc = "done"
    /\ ret' = Append(ret, [res |-> result, calls |-> calls])
    /\ pc' = "next_run"
    /\ UNCHANGED <<call, pipeline_vars>>

SeedsNext == StartRun \/ Next \/ AppendResult

SeedsSpec == SeedsInit /\ [][SeedsNext]_vars

----------------------------------------------------------------------------
(* Direct calls, continued: the reduced instance of a returned grouping.   *)

CallBuildReduced ==
    /\ pc = "group_returned"
    /\ pc' = "reduced_built"
    /\ vrp_inst' = Some(build_reduced_vrp_instance(call.distance,
                             ret.remaining_customers, ret.remaining_demands,
                             call.vehicle_capacity))
    /\ UNCHANGED <<harness_vars, inst, cfg, packing_rows, pallet_counts, grouping,
                   vrp_res, result, calls>>

\* The grouping of the sibling module (bpcvrp_grouped_heuristic), on the
\* pallet counts its packing calls have returned.

\* 2 * int(Distance[0][c])
SiblingTripCost_OneWay(Distance, c) == Distance[0][c]
SiblingTripCost(Distance, c) == 2 * Distance[0][c]

EmptyStats ==
    [pallets_per_customer |-> <<>>, full_trips_per_customer |-> <<>>,
     remainder_per_customer |-> <<>>, fixed_cost |-> 0,
     remaining_customer_ids |-> <<>>, remaining_demands |-> <<>>]

\* one iteration of the loop, for customer c with its pallet count
PalletiseCustomer(acc, c, pallets, Distance, Capacity) ==
    LET full_trips == PyFloorDiv(pallets, Capacity)
        rem == PyMod(pallets, Capacity)
    IN [pallets_per_customer |-> Append(acc.pallets_per_customer, pallets),
        full_trips_per_customer |-> Append(acc.full_trips_per_customer, full_trips),
        remainder_per_customer |-> Append(acc.remainder_per_customer, rem),
        fixed_cost |->
           IF full_trips > 0
           THEN acc.fixed_cost + full_trips * SiblingTripCost(Distance, c)
           ELSE acc.fixed_cost,
        remaining_customer_ids |->
           IF rem > 0 THEN Append(acc.remaining_customer_ids, c)
           ELSE acc.remaining_customer_ids,
        remaining_demands |->
           IF rem > 0 THEN Append(acc.remaining_demands, rem)
           ELSE acc.remaining_demands]

RECURSIVE PalletiseFrom(_, _, _, _, _)
PalletiseFrom(acc, c, counts, Distance, Capacity) ==
    IF c > Len(counts) THEN acc
    ELSE PalletiseFrom(PalletiseCustomer(acc, c, counts[c], Distance, Capacity),
                       c + 1, counts, Distance, Capacity)

\* the PalletisationStats of the counts; pallets // Capacity raises for
\* Capacity = 0 at the first customer
palletise_and_group(counts, Distance, Capacity) ==
    IF Capacity = 0 /\ Len(counts) > 0
    THEN [raised |-> "ZeroDivisionError"]
    ELSE PalletiseFrom(EmptyStats, 1, counts, Distance, Capacity)

\* the sibling's grouping on the arguments of the call
CallPalletise ==
    /\ pc = "reduced_built"
    /\ pc' = "palletise_returned"
    /\ result' = palletise_and_group(call.pallet_counts, call.distance,
                                     call.vehicle_capacity)
    /\ UNCHANGED <<harness_vars, inst, cfg, packing_rows, pallet_counts, grouping,
                   vrp_inst, vrp_res, calls>>

GroupNext == CallGroup \/ CallBuildReduced \/ CallPalletise

GroupSpec == GroupInit /\ [][GroupNext]_vars

----------------------------------------------------------------------------
(* Vocabulary of the properties of a returned GroupingResult.              *)

GroupReturned == pc = "group_returned"

ArgCounts == call.pallet_counts
ArgQ == call.vehicle_capacity
ArgFlag == call.treat_equal_capacity_as_fixed
ArgCustomers == 1..Len(call.pallet_counts)

\* non-negative pallet counts and a positive capacity
WellFormedCall ==
    /\ ArgQ > 0
    /\ \A c \in ArgCustomers : ArgCounts[c] >= 0

\* the full trips of customer c, 0 when c is no key of full_trips
TripsOf(g, c) == IF c \in DOMAIN g.full_trips THEN g.full_trips[c] ELSE 0

\* the positions of customer c in remaining_customers
ResidualAt(g, c) ==
    {k \in 1..Len(g.remaining_customers) : g.remaining_customers[k] = c}

\* the residual demands recorded for customer c
ResidualValues(g, c) ==
    {g.remaining_demands[k] : k \in ResidualAt(g, c) \cap DOMAIN g.remaining_demands}

\* customer c has exactly one residual entry and its demand is d
OneResidual(g, c, d) ==
    /\ Cardinality(ResidualAt(g, c)) = 1
    /\ ResidualValues(g, c) = {d}

NoResidual(g, c) == ResidualAt(g, c) = {}

\* the explicit depot -> c -> depot entries of customer c
RoutesOf(g, c) ==
    {k \in 1..Len(g.full_trip_routes) : g.full_trip_routes[k].customer = c}

\* the fixed cost the explicit trips of the customers in S add up to
RouteCostOf(g, S) ==
    SumOver([k \in 1..Len(g.full_trip_routes) |-> g.full_trip_routes[k].total_cost],
            {k \in 1..Len(g.full_trip_routes) : g.full_trip_routes[k].customer \in S})

----------------------------------------------------------------------------
(* C1: pallet conservation.  For non-negative pallet counts and a positive *)
(* Capacity, under either policy, the full trips times Capacity plus the   *)
(* remaining demands add up to the pallet counts exactly.                  *)
C1_PalletConservation ==
    (GroupReturned /\ WellFormedCall) =>
        SumOver([c \in DOMAIN ret.full_trips |-> ret.full_trips[c] * ArgQ],
                DOMAIN ret.full_trips)
          + SumSeq(ret.remaining_demands)
        = SumSeq(ArgCounts)

\* a call that splits one customer into full trips and a remainder, keeps
\* another whole and drops a third
C1_Witness ==
    /\ GroupReturned /\ WellFormedCall
    /\ \E c \in ArgCustomers : TripsOf(ret, c) >= 2 /\ ~NoResidual(ret, c)
    /\ \E c \in ArgCustomers : TripsOf(ret, c) = 0 /\ ~NoResidual(ret, c)
    /\ \E c \in ArgCustomers : ArgCounts[c] = 0

(* C2: for non-negative pallet counts and a positive Capacity, fixed_cost  *)
(* is the sum over the keys c of full_trips of                             *)
(* full_trips[c] * (Distance[0][c] + Distance[c][0]), and 0 when           *)
(* full_trips is empty.                                                    *)
C2_FixedCostIsSumOfTrips ==
    (GroupReturned /\ WellFormedCall) =>
        /\ ret.fixed_cost =
              SumOver([c \in DOMAIN ret.full_trips |->
                          ret.full_trips[c]
                            * (call.distance[0][c] + call.distance[c][0])],
                      DOMAIN ret.full_trips)
        /\ (DOMAIN ret.full_trips = {}) => ret.fixed_cost = 0

\* two customers with full trips under a distance whose two legs differ
C2_Witness ==
    /\ GroupReturned /\ WellFormedCall
    /\ Cardinality(DOMAIN ret.full_trips) >= 2
    /\ \E c \in DOMAIN ret.full_trips :
          /\ ret.full_trips[c] >= 2
          /\ call.distance[0][c] # call.distance[c][0]
    /\ ret.fixed_cost > 0

----------------------------------------------------------------------------
(* Vocabulary of the properties of a run of the pipeline.                  *)

Done == pc = "done"
Customers == 1..inst.N

\* the statuses a CustomerPacking has when its count is no fallback
PlainStatuses ==
    {"SKIPPED_EMPTY", "OPTIMAL_SOLUTION", "SATISFIED", "UNKNOWN", "UNSATISFIABLE"}

\* the count of the packing row is the fallback named fb
UsedFallback(row, fb) ==
    \E st \in PlainStatuses : row.bpp_status = st \o " (fallback=" \o fb \o ")"

\* the routes of the routing result of res, over the reduced nodes
PlanRoutes(res) ==
    IF res.solution.vrp_result = None
       \/ Get(res.solution.vrp_result).solution = None
    THEN {}
    ELSE Get(Get(res.solution.vrp_result).solution).routes

\* a route over the reduced nodes, in original customer ids
InOriginalIds(g, route) ==
    [i \in 1..Len(route) |-> g.orig_customer_of_node[route[i]]]

\* the pallets the plan of res brings to customer c: Capacity on each of
\* its full trips and the demand of each of its visited reduced nodes
DeliveredTo(res, c) ==
    LET g == res.solution.grouping
        visited == {k \in 1..Len(g.remaining_demands) :
                      /\ g.orig_customer_of_node[k] = c
                      /\ \E r \in PlanRoutes(res) : \E i \in 1..Len(r) : r[i] = k}
    IN TripsOf(g, c) * inst.Capacity
       + SumOver([k \in visited |-> g.remaining_demands[k]], visited)

\* The plan of res is a feasible delivery plan of the instance: every route
\* visits reduced nodes, none twice, with a load of at most Capacity, and
\* every customer receives at least as many pallets as its items need.
FeasiblePlan(res) ==
    LET g == res.solution.grouping
        routes == PlanRoutes(res)
    IN /\ \A r \in routes :
            /\ Len(r) >= 1
            /\ \A i \in 1..Len(r) : r[i] \in 1..Len(g.remaining_demands)
            /\ \A i, j \in 1..Len(r) : r[i] = r[j] => i = j
            /\ RouteLoad(g.remaining_demands, r) <= inst.Capacity
       /\ \A r, q \in routes :
            r # q => \A i \in 1..Len(r), j \in 1..Len(q) : r[i] # q[j]
       /\ \A c \in Customers :
            DeliveredTo(res, c) >= MinBins(SizesRow(inst, c), inst.binCapacity)

\* the cost of the plan of res on the distances of the instance: the full
\* trips depot -> c -> depot and the routes in original customer ids
PlanCost(res) ==
    LET g == res.solution.grouping
        routes == PlanRoutes(res)
    IN SumOver([c \in Customers |->
                  TripsOf(g, c) * (inst.Distance[0][c] + inst.Distance[c][0])],
               Customers)
       + SumOver([r \in routes |-> RouteCost(inst.Distance, InOriginalIds(g, r))],
                 routes)

\* the instance has a feasible plan at all: a positive Capacity and no
\* item above binCapacity
WellFormedInstance ==
    /\ inst.Capacity >= 1
    /\ \A c \in Customers :
          \A i \in 1..Len(SizesRow(inst, c)) :
             SizesRow(inst, c)[i] <= inst.binCapacity

\* the result carries a total objective and it is the cost of a feasible plan
ObjectiveIsCostOfFeasiblePlan ==
    (Done /\ WellFormedInstance /\ result.objective # None) =>
        /\ FeasiblePlan(result)
        /\ Get(result.objective) = PlanCost(result)

(* C3: whenever the pipeline returns a non-null total objective, the value *)
(* is the cost of a feasible delivery plan of the instance, whatever each  *)
(* packing solve returned, under either fallback.                          *)
C3_ObjectiveIsUpperBound == ObjectiveIsCostOfFeasiblePlan

(* C3, amended: whenever the pipeline returns a non-null total objective   *)
(* and no pallet count is the volume_lb fallback, the value is the cost of *)
(* a feasible delivery plan of the instance, whatever each packing solve   *)
(* returned.                                                               *)
C3_UpperBoundWithoutVolumeFallback ==
    (Done /\ \A c \in 1..Len(packing_rows) :
                ~UsedFallback(packing_rows[c], "volume_lb"))
        => ObjectiveIsCostOfFeasiblePlan

\* a run with a total objective made of full trips and routes, where one
\* count is the items_ub fallback and another a feasible-only packing
C3_Witness ==
    /\ Done /\ result.objective # None
    /\ \E c \in 1..Len(packing_rows) : UsedFallback(packing_rows[c], "items_ub")
    /\ \E c \in 1..Len(packing_rows) : packing_rows[c].bpp_status = "SATISFIED"
    /\ DOMAIN result.solution.grouping.full_trips # {}
    /\ PlanRoutes(result) # {}

(* C4: under the default policy a customer with pallet count               *)
(* p <= Capacity has no full trip and adds no fixed cost; it has exactly   *)
(* one residual entry, of value p, when p >= 1 (p = Capacity included)     *)
(* and none when p = 0.                                                    *)
C4_DefaultKeepsSmallWhole ==
    (GroupReturned /\ ~ArgFlag) =>
        \A c \in ArgCustomers :
            ArgCounts[c] <= ArgQ =>
                /\ c \notin DOMAIN ret.full_trips
                /\ RoutesOf(ret, c) = {}
                /\ ret.fixed_cost = RouteCostOf(ret, ArgCustomers \ {c})
                /\ ArgCounts[c] >= 1 => OneResidual(ret, c, ArgCounts[c])
                /\ ArgCounts[c] = 0 => NoResidual(ret, c)

\* a customer exactly at capacity kept as a residual next to a customer
\* with full trips and a customer without pallets
C4_Witness ==
    /\ GroupReturned /\ ~ArgFlag /\ ArgQ >= 2
    /\ \E c \in ArgCustomers :
          ArgCounts[c] = ArgQ /\ OneResidual(ret, c, ArgQ)
    /\ \E c \in ArgCustomers : ArgCounts[c] = 0 /\ NoResidual(ret, c)
    /\ ret.fixed_cost > 0

(* C5: with a positive Capacity a customer with pallet count p > Capacity  *)
(* has full_trips[c] = p // Capacity and a residual entry of value         *)
(* p % Capacity exactly when p % Capacity > 0.                             *)
C5_LargeCountsSplit ==
    (GroupReturned /\ ArgQ > 0) =>
        \A c \in ArgCustomers :
            ArgCounts[c] > ArgQ =>
                /\ c \in DOMAIN ret.full_trips
                /\ ret.full_trips[c] = ArgCounts[c] \div ArgQ
                /\ (ArgCounts[c] % ArgQ > 0) =>
                        OneResidual(ret, c, ArgCounts[c] % ArgQ)
                /\ (ArgCounts[c] % ArgQ = 0) => NoResidual(ret, c)

\* one customer with two full trips and no remainder, one with a remainder
C5_Witness ==
    /\ GroupReturned /\ ArgQ >= 2
    /\ \E c \in ArgCustomers :
          ArgCounts[c] > ArgQ /\ TripsOf(ret, c) = 2 /\ NoResidual(ret, c)
    /\ \E c \in ArgCustomers :
          ArgCounts[c] > ArgQ /\ ~NoResidual(ret, c)

\* the grouping of the same call under the default policy
DefaultGrouping ==
    group_pallet_demands(call.pallet_counts, call.distance, ArgQ, FALSE)

\* customer c is grouped in g as it is in h
SameGrouping(g, h, c) ==
    /\ TripsOf(g, c) = TripsOf(h, c)
    /\ Cardinality(ResidualAt(g, c)) = Cardinality(ResidualAt(h, c))
    /\ ResidualValues(g, c) = ResidualValues(h, c)
    /\ RouteCostOf(g, {c}) = RouteCostOf(h, {c})

\* customer c is one fixed trip: one depot -> c -> depot entry, no residual
OneFixedTrip(g, c) ==
    /\ c \in DOMAIN g.full_trips
    /\ g.full_trips[c] = 1
    /\ Cardinality(RoutesOf(g, c)) = 1
    /\ RouteCostOf(g, {c}) = call.distance[0][c] + call.distance[c][0]
    /\ g.fixed_cost = RouteCostOf(g, ArgCustomers \ {c}) + RouteCostOf(g, {c})
    /\ NoResidual(g, c)

(* C6 as stated: with treat_equal_capacity_as_fixed = True a customer      *)
(* whose pallet count equals Capacity has full_trips[c] = 1, adds          *)
(* Distance[0][c] + Distance[c][0] to fixed_cost and is not in             *)
(* remaining_customers; every other customer is grouped as under the       *)
(* default policy.                                                         *)
C6_EqualCapacityIsFixed ==
    (GroupReturned /\ ArgFlag) =>
        \A c \in ArgCustomers :
            /\ ArgCounts[c] = ArgQ => OneFixedTrip(ret, c)
            /\ ArgCounts[c] # ArgQ => SameGrouping(ret, DefaultGrouping, c)

(* C6 amended: the same, for a customer whose pallet count equals Capacity *)
(* and is not 0; a customer without pallets is skipped, also when          *)
(* Capacity is 0.                                                          *)
C6_NonZeroEqualCapacityIsFixed ==
    (GroupReturned /\ ArgFlag) =>
        \A c \in ArgCustomers :
            /\ (ArgCounts[c] = ArgQ /\ ArgCounts[c] # 0) => OneFixedTrip(ret, c)
            /\ ArgCounts[c] = 0 =>
                  (c \notin DOMAIN ret.full_trips /\ NoResidual(ret, c))
            /\ ArgCounts[c] # ArgQ => SameGrouping(ret, DefaultGrouping, c)

\* a customer at capacity fixed as one trip, next to a smaller and a larger
\* customer that the default policy groups alike
C6_Witness ==
    /\ GroupReturned /\ ArgFlag /\ ArgQ >= 2
    /\ \E c \in ArgCustomers : ArgCounts[c] = ArgQ /\ OneFixedTrip(ret, c)
    /\ \E c \in ArgCustomers : ArgCounts[c] < ArgQ /\ ~NoResidual(ret, c)
    /\ \E c \in ArgCustomers : ArgCounts[c] > ArgQ /\ ~NoResidual(ret, c)
    /\ ret # DefaultGrouping

(* C7: remaining_customers is strictly increasing in the original customer *)
(* id, for every input and both policies.                                  *)
C7_RemainingStrictlyIncreasing ==
    GroupReturned =>
        \A k \in 1..(Len(ret.remaining_customers) - 1) :
            ret.remaining_customers[k] < ret.remaining_customers[k + 1]

\* customers 1 and 3 retained, customer 2 removed as fixed trips
C7_Witness ==
    /\ GroupReturned
    /\ ret.remaining_customers = <<1, 3>>
    /\ 2 \in DOMAIN ret.full_trips

(* C8: for non-negative pallet counts and a positive Capacity,             *)
(* remaining_demands is as long as remaining_customers and every entry is  *)
(* in 1..Capacity under the default policy and in 1..Capacity - 1 under    *)
(* treat_equal_capacity_as_fixed.                                          *)
C8_ResidualWithinCapacity ==
    (GroupReturned /\ WellFormedCall) =>
        /\ Len(ret.remaining_demands) = Len(ret.remaining_customers)
        /\ \A k \in 1..Len(ret.remaining_demands) :
              /\ ret.remaining_demands[k] >= 1
              /\ ret.remaining_demands[k] <= (IF ArgFlag THEN ArgQ - 1 ELSE ArgQ)

\* the default policy hands a demand of exactly Capacity to routing, next to
\* the remainder of a split customer
C8_Witness ==
    /\ GroupReturned /\ WellFormedCall /\ ~ArgFlag /\ ArgQ >= 2
    /\ \E k \in 1..Len(ret.remaining_demands) : ret.remaining_demands[k] = ArgQ
    /\ \E c \in DOMAIN ret.full_trips : ~NoResidual(ret, c)

(* C9: every value of full_trips is >= 1, and a customer with pallet count *)
(* below Capacity, or equal to it under the default policy, is no key of   *)
(* full_trips.                                                             *)
C9_FullTripsOnlyWithTrips ==
    GroupReturned =>
        /\ DOMAIN ret.full_trips \subseteq ArgCustomers
        /\ \A c \in DOMAIN ret.full_trips : ret.full_trips[c] >= 1
        /\ \A c \in ArgCustomers :
              (ArgCounts[c] < ArgQ \/ (ArgCounts[c] = ArgQ /\ ~ArgFlag)) =>
                  c \notin DOMAIN ret.full_trips

\* a key for a split customer, none for a customer at capacity nor for a
\* smaller one
C9_Witness ==
    /\ GroupReturned /\ ~ArgFlag /\ ArgQ >= 2
    /\ \E c \in ArgCustomers : c \in DOMAIN ret.full_trips
    /\ \E c \in ArgCustomers : ArgCounts[c] = ArgQ /\ c \notin DOMAIN ret.full_trips
    /\ \E c \in ArgCustomers :
          ArgCounts[c] \in 1..(ArgQ - 1) /\ c \notin DOMAIN ret.full_trips

(* C10: the entry of orig_customer_of_node for the reduced node k is the   *)
(* Python element remaining_customers[k - 1], for every k in 1..N_rem,     *)
(* and the mapping is a bijection between the reduced nodes and the        *)
(* retained customers.                                                     *)
C10_NodeMapMatchesRemaining ==
    GroupReturned =>
        LET N_rem == Len(ret.remaining_customers)
            retained == {ret.remaining_customers[k] : k \in 1..N_rem}
        IN /\ Len(ret.orig_customer_of_node) = N_rem
           /\ \A k \in 1..N_rem :
                 ret.orig_customer_of_node[k] = PyAt(ret.remaining_customers, k - 1)
           /\ \A j, k \in 1..N_rem :
                 ret.orig_customer_of_node[j] = ret.orig_customer_of_node[k] => j = k
           /\ {ret.orig_customer_of_node[k] : k \in 1..N_rem} = retained
           /\ Cardinality(retained) = N_rem

\* reduced nodes 1 and 2 stand for the customers 2 and 3
C10_Witness ==
    /\ GroupReturned
    /\ ret.orig_customer_of_node = <<2, 3>>
    /\ ret.remaining_customers = <<2, 3>>
    /\ Len(ArgCounts) = 3

----------------------------------------------------------------------------
(* Vocabulary of the properties of a reduced instance.                     *)

ReducedBuilt == pc = "reduced_built"

\* node(0) = 0, the depot; node(k) = remaining_customers[k - 1]
NodeOf(g, k) == IF k = 0 THEN 0 ELSE PyAt(g.remaining_customers, k - 1)

\* D is a matrix over 0..n that equals its transpose and has a zero diagonal
SymmetricZeroDiagonal(D, n) ==
    \A i, j \in 0..n : D[i][j] = D[j][i] /\ D[i][i] = 0

(* C11: the reduced instance built from remaining_customers has a distance *)
(* matrix of size (N_rem + 1) x (N_rem + 1) whose entry [i][j] is the      *)
(* original Distance[node(i)][node(j)], with node(0) = 0 and               *)
(* node(k) = remaining_customers[k - 1]; it is symmetric with a zero       *)
(* diagonal whenever the original matrix is.                               *)
C11_ReducedIsSubmatrix ==
    ReducedBuilt =>
        LET vi == Get(vrp_inst)
            N_rem == Len(ret.remaining_customers)
        IN /\ vi.N = N_rem
           /\ DOMAIN vi.Distance = 0..N_rem
           /\ \A i \in 0..N_rem : DOMAIN vi.Distance[i] = 0..N_rem
           /\ \A i, j \in 0..N_rem :
                 vi.Distance[i][j] = call.distance[NodeOf(ret, i)][NodeOf(ret, j)]
           /\ SymmetricZeroDiagonal(call.distance, Len(ArgCounts))
                 => SymmetricZeroDiagonal(vi.Distance, N_rem)

\* a reduced instance over the customers 1 and 3 of three, built from a
\* matrix whose two directions differ
C11_Witness ==
    /\ ReducedBuilt
    /\ ret.remaining_customers = <<1, 3>>
    /\ call.distance[1][3] # call.distance[3][1]
    /\ Get(vrp_inst).Distance[1][2] = call.distance[1][3]

----------------------------------------------------------------------------
(* Vocabulary of the properties of the returned SolveResult.               *)

\* the routing solver answered with a solution and an objective
RoutingSucceeded ==
    /\ vrp_res # None
    /\ Get(vrp_res).has_solution
    /\ Get(vrp_res).objective # None

\* the routing solver was called and its answer is not usable
RoutingFailed ==
    /\ vrp_res # None
    /\ ~(Get(vrp_res).has_solution /\ Get(vrp_res).objective # None)

Breakdown == result.solution.objective_breakdown

(* C12: when the routing stage returns a solution with a non-null          *)
(* objective, the reported total_objective is fixed_cost +                 *)
(* routing_objective, has_solution is True, and the objective breakdown    *)
(* carries the same fixed_cost and routing_objective.                      *)
C12_TotalIsFixedPlusRouting ==
    (Done /\ RoutingSucceeded) =>
        LET routing_objective == Get(Get(vrp_res).objective)
        IN /\ result.has_solution
           /\ result.objective = Some(grouping.fixed_cost + routing_objective)
           /\ Breakdown.total_objective = result.objective
           /\ Breakdown.fixed_cost = grouping.fixed_cost
           /\ Breakdown.routing_objective = Some(routing_objective)

\* a run with a positive fixed cost and a positive routing objective
C12_Witness ==
    /\ Done /\ RoutingSucceeded
    /\ grouping.fixed_cost > 0
    /\ Get(Get(vrp_res).objective) > 0

(* C13: when the routing solver returns no usable solution, the pipeline   *)
(* still returns a result: its objective and total_objective are null,     *)
(* has_solution is False, its status is the status of the routing solver,  *)
(* the packing list holds one entry per customer and the grouping is the   *)
(* one of Stage 2.                                                         *)
C13_RoutingFailureIsPartialResult ==
    ((pc \in {"compose", "done"}) /\ RoutingFailed) =>
        /\ Done
        /\ result # Unset
        /\ result.objective = None
        /\ Breakdown.total_objective = None
        /\ Breakdown.routing_objective = None
        /\ ~result.has_solution
        /\ result.status = Get(vrp_res).status
        /\ Len(result.solution.packing) = inst.N
        /\ \A c \in Customers :
              /\ result.solution.packing[c].customer = c
              /\ result.solution.packing[c] = packing_rows[c]
        /\ result.solution.grouping = grouping
        /\ grouping = group_pallet_demands(pallet_counts, inst.Distance,
                          inst.Capacity, cfg.treat_equal_capacity_as_fixed)
        /\ Breakdown.fixed_cost = grouping.fixed_cost

\* a run of two customers with a fixed cost whose routing solve is
\* infeasible
C13_Witness ==
    /\ Done /\ RoutingFailed
    /\ Get(vrp_res).status = "UNSATISFIABLE"
    /\ inst.N = 2
    /\ grouping.fixed_cost > 0

\* Stage 2 has run
Grouped == pc \in {"stage3", "vrp_solve", "compose", "done"}

\* the routing solver has been called
RoutingCalled == \E k \in 1..Len(calls) : calls[k].solver = "vrp"

(* C14: if grouping leaves no residual demand, the routing solver is never *)
(* invoked, no reduced instance and no routing result is produced, and the *)
(* reported total objective is fixed_cost exactly, with has_solution True. *)
C14_NoResidualSkipsRouting ==
    (Grouped /\ Len(grouping.remaining_customers) = 0) =>
        /\ ~RoutingCalled
        /\ vrp_inst = None /\ vrp_res = None
        /\ pc \in {"stage3", "done"}
        /\ Done =>
              /\ result.has_solution
              /\ result.objective = Some(grouping.fixed_cost)
              /\ Breakdown.total_objective = Some(grouping.fixed_cost)
              /\ result.solution.vrp_instance = None
              /\ result.solution.vrp_result = None

\* a finished run whose demand all went into full trips
C14_Witness ==
    /\ Done
    /\ Len(grouping.remaining_customers) = 0
    /\ grouping.fixed_cost > 0
    /\ inst.N = 2

\* every pallet count of the run is an exact multiple of Capacity
AllMultiplesOfCapacity ==
    /\ inst.Capacity >= 1
    /\ \A c \in 1..Len(pallet_counts) : PyMod(pallet_counts[c], inst.Capacity) = 0

\* remaining_customers is empty, routing is skipped and the total is fixed_cost
AllDemandIsFixed ==
    /\ grouping.remaining_customers = <<>>
    /\ ~RoutingCalled
    /\ vrp_inst = None /\ vrp_res = None
    /\ Done => /\ result.objective = Some(grouping.fixed_cost)
               /\ Breakdown.total_objective = Some(grouping.fixed_cost)

(* C15: when every customer's pallet count is an exact multiple of         *)
(* Capacity, remaining_customers is empty, the routing stage is skipped    *)
(* and total_objective is fixed_cost exactly.                              *)
C15_MultiplesAreAllFixed ==
    (Grouped /\ AllMultiplesOfCapacity) => AllDemandIsFixed

(* C15, amended: when every customer's pallet count is an exact multiple   *)
(* of Capacity and, unless treat_equal_capacity_as_fixed is set, none      *)
(* equals Capacity exactly, remaining_customers is empty, the routing      *)
(* stage is skipped and total_objective is fixed_cost exactly.             *)
C15_MultiplesBeyondCapacityAreAllFixed ==
    (/\ Grouped /\ AllMultiplesOfCapacity
     /\ \/ cfg.treat_equal_capacity_as_fixed
        \/ \A c \in 1..Len(pallet_counts) : pallet_counts[c] # inst.Capacity)
        => AllDemandIsFixed

\* a finished run under the opt-in policy with one customer at Capacity
\* exactly and one at a higher multiple
C15_Witness ==
    /\ Done /\ AllMultiplesOfCapacity
    /\ cfg.treat_equal_capacity_as_fixed
    /\ \E c \in Customers : pallet_counts[c] = inst.Capacity
    /\ \E c \in Customers : pallet_counts[c] > inst.Capacity
    /\ result.objective = Some(grouping.fixed_cost)

----------------------------------------------------------------------------
(* Vocabulary of the properties of the packing stage.                      *)

\* the packing solver has been called for customer c
BppCalled(c) ==
    \E k \in 1..Len(calls) : calls[k].solver = "bpp" /\ calls[k].customer = c

\* the customers whose packing row is recorded
Packed == 1..Len(packing_rows)

(* C16: for a customer with an empty item list the pallet count is 0 and   *)
(* the packing solver is not invoked for that customer.                    *)
C16_EmptyListShortCircuits ==
    \A c \in Customers :
        SizesRow(inst, c) = <<>> =>
            /\ ~BppCalled(c)
            /\ c \in Packed =>
                  /\ packing_rows[c].pallets = 0
                  /\ pallet_counts[c] = 0

\* a finished run whose first customer ordered nothing and whose second
\* customer was handed to the solver
C16_Witness ==
    /\ Done
    /\ inst.N = 2
    /\ SizesRow(inst, 1) = <<>>
    /\ packing_rows[1].pallets = 0
    /\ BppCalled(2)

\* the calls of the packing solver so far, as positions of the call log
BppCalls == {k \in 1..Len(calls) : calls[k].solver = "bpp"}

\* the solve result exposes neither solution["nBins"] nor an objective
YieldsNoCount(res) ==
    /\ res.solution = None \/ Get(res.solution).nBins = None
    /\ res.objective = None

\* the count the solve result exposes: solution["nBins"] before the objective
YieldedCount(res) ==
    IF res.solution # None /\ Get(res.solution).nBins # None
    THEN Get(Get(res.solution).nBins)
    ELSE Get(res.objective)

(* C17: when the packing solver yields neither a bin count nor an          *)
(* objective for a non-empty item list, the pallet count is the number of  *)
(* items under items_ub and ceil(sum of sizes / bin_capacity) under        *)
(* volume_lb; when the solver yields a count, that count is returned as it *)
(* is and no fallback is applied.                                          *)
C17_FallbackOnlyWithoutCount ==
    \A k \in BppCalls :
        LET res == calls[k].res
            row == packing_rows[calls[k].customer]
            sizes == SizesRow(inst, calls[k].customer)
        IN /\ sizes # <<>>
           /\ YieldsNoCount(res) =>
                 /\ cfg.fallback_bpp = "items_ub" => row.pallets = Len(sizes)
                 /\ cfg.fallback_bpp = "volume_lb" =>
                       /\ (row.pallets - 1) * inst.binCapacity < SumSeq(sizes)
                       /\ SumSeq(sizes) <= row.pallets * inst.binCapacity
                 /\ UsedFallback(row, cfg.fallback_bpp)
           /\ ~YieldsNoCount(res) =>
                 /\ row.pallets = YieldedCount(res)
                 /\ row.bpp_status = res.status
                 /\ row.bpp_status \in PlainStatuses

\* a run under volume_lb in which one solve yielded no count for three
\* items and another yielded its count through solution["nBins"] alone
C17_Witness ==
    /\ Done
    /\ cfg.fallback_bpp = "volume_lb"
    /\ \E k \in BppCalls :
          /\ YieldsNoCount(calls[k].res)
          /\ Len(SizesRow(inst, calls[k].customer)) = 3
    /\ \E k \in BppCalls :
          /\ ~YieldsNoCount(calls[k].res)
          /\ calls[k].res.objective = None

----------------------------------------------------------------------------
(* Vocabulary of the properties of a direct call of the packing resolver.  *)

PackReturned == pc = "pack_returned"

\* a non-empty list of positive sizes, each at most bin_capacity
WellFormedItems ==
    /\ call.item_sizes # <<>>
    /\ \A i \in 1..Len(call.item_sizes) :
          call.item_sizes[i] >= 1 /\ call.item_sizes[i] <= call.bin_capacity

\* the pallet count the resolver falls back to under fb for the call's items
FallbackOf(fb) == FallbackCount(call.item_sizes, call.bin_capacity, fb)

(* C18: for every non-empty list of positive item sizes, each at most      *)
(* bin_capacity, the items_ub fallback count is at least the volume_lb     *)
(* fallback count, which is at least 1.                                    *)
C18_FallbackMonotone ==
    WellFormedItems =>
        /\ FallbackOf("items_ub") >= FallbackOf("volume_lb")
        /\ FallbackOf("volume_lb") >= 1

\* a returned call that fell back to volume_lb where the three counts
\* differ: 3 items, 2 pallets by volume
C18_Witness ==
    /\ PackReturned /\ WellFormedItems
    /\ UsedFallback(ret, "volume_lb")
    /\ ret.pallets = FallbackOf("volume_lb")
    /\ FallbackOf("items_ub") > FallbackOf("volume_lb")
    /\ FallbackOf("volume_lb") > 1

\* the true minimum number of pallets of the call's items
TrueMinimum == MinBins(call.item_sizes, call.bin_capacity)

(* C19: for every list of positive item sizes, each at most bin_capacity,  *)
(* the pallet count of the resolver is at least the true minimum number of *)
(* pallets, on every path: a count reported by the solver, the items_ub    *)
(* fallback and the volume_lb fallback.                                    *)
C19_CountIsUpperBound ==
    (PackReturned /\ WellFormedItems) => ret.pallets >= TrueMinimum

(* C19, amended: the pallet count of the resolver is at least the true     *)
(* minimum number of pallets when it is a count reported by the solver or  *)
(* the items_ub fallback; the volume_lb fallback is at most the true       *)
(* minimum.                                                                *)
C19_CountIsUpperBoundUnlessVolume ==
    (PackReturned /\ WellFormedItems) =>
        IF UsedFallback(ret, "volume_lb")
        THEN ret.pallets <= TrueMinimum
        ELSE ret.pallets >= TrueMinimum

\* a returned call whose items_ub fallback count lies above the true
\* minimum
C19_Witness ==
    /\ PackReturned /\ WellFormedItems
    /\ UsedFallback(ret, "items_ub")
    /\ ret.pallets > TrueMinimum
    /\ TrueMinimum >= 2

----------------------------------------------------------------------------
\* the call passes a negative Capacity or a negative pallet count
MalformedCall ==
    \/ ArgQ < 0
    \/ \E c \in ArgCustomers : ArgCounts[c] < 0

(* C20: group_pallet_demands rejects an input with a negative Capacity or  *)
(* a negative pallet count: such a call returns no GroupingResult.         *)
C20_MalformedCallRejected ==
    ~(GroupReturned /\ MalformedCall)

----------------------------------------------------------------------------
\* a negative Capacity, an item above binCapacity, or ragged item arrays
MalformedInstance ==
    \/ inst.Capacity < 0
    \/ \E c \in 1..Len(inst.SizesOfItems) :
          \E i \in 1..Len(inst.SizesOfItems[c]) :
             inst.SizesOfItems[c][i] > inst.binCapacity
    \/ \E c \in 1..Len(inst.SizesOfItems) :
          Len(inst.SizesOfItems[c]) # inst.maxItemsPerCustomer

(* C21: a malformed instance (negative Capacity, an item above             *)
(* binCapacity, ragged item arrays) is rejected before any solver call:    *)
(* its run makes no solver call and returns no result.                     *)
C21_MalformedInstanceRejected ==
    MalformedInstance => (calls = <<>> /\ result = Unset)

----------------------------------------------------------------------------
(* Vocabulary of the properties of the whole packing stage.                *)

\* the positive entries of row at the positions i, i + 1, ..., k
RECURSIVE PositiveAmong(_, _, _)
PositiveAmong(row, i, k) ==
    IF i > k \/ i > Len(row) THEN <<>>
    ELSE (IF row[i] > 0 THEN <<row[i]>> ELSE <<>>) \o PositiveAmong(row, i + 1, k)

\* the positive entries among the first ItemsPerCustomer[c] entries of
\* customer c's row of SizesOfItems, in the order of the row
OwnItems(c) == PositiveAmong(inst.SizesOfItems[c], 1, inst.ItemsPerCustomer[c])

\* the log entry of the packing solve of customer c
BppCallOf(c) ==
    calls[CHOOSE k \in 1..Len(calls) :
             calls[k].solver = "bpp" /\ calls[k].customer = c]

\* what the packing stage records for customer c, given the items, the
\* pallet capacity and the answer of the customer's own solve
OwnPacking(c) ==
    solve_bpp_for_customer(c, OwnItems(c), inst.binCapacity, cfg.fallback_bpp,
        IF BppCalled(c) THEN BppCallOf(c).res ELSE NoSolution("UNKNOWN", 0))

(* C22: the c-th packing row and the pallet count at position c of         *)
(* pallet_counts are the result of customer c's own packing solve: they    *)
(* are determined by customer c's items, the pallet capacity and that      *)
(* solve's answer, whatever the other customers' solves returned.          *)
C22_PackingIsPerCustomer ==
    /\ Len(pallet_counts) = Len(packing_rows)
    /\ \A c \in Packed :
          /\ packing_rows[c] = OwnPacking(c)
          /\ pallet_counts[c] = OwnPacking(c).pallets

\* two customers with different items are packed; the first one's solve
\* gave no count and a stand-in was used, the second one's gave a count
C22_Witness ==
    /\ Len(packing_rows) = 2
    /\ OwnItems(1) # OwnItems(2)
    /\ BppCalled(1) /\ BppCalled(2)
    /\ extract_nbins(BppCallOf(1).res) = None
    /\ extract_nbins(BppCallOf(2).res) # None
    /\ pallet_counts[1] # pallet_counts[2]

----------------------------------------------------------------------------
\* the routing solver was called, and before it every packing solve
RoutingCallIsLast ==
    \A k \in 1..Len(calls) :
       calls[k].solver = "vrp" =>
          /\ k = Len(calls)
          /\ \A j \in 1..(k - 1) : calls[j].solver = "bpp"

(* C23: the stages run in order.  Grouping exists only once the packing    *)
(* row of every customer 1..N is recorded; the reduced instance exists     *)
(* only once grouping exists; the routing solver is called only on the     *)
(* reduced instance already built, after every packing solve has returned; *)
(* the result exists only once routing has returned or was skipped.        *)
C23_StagesRunInOrder ==
    /\ grouping # Unset =>
          /\ Len(packing_rows) = inst.N
          /\ \A c \in Customers : packing_rows[c].customer = c
    /\ vrp_inst # None => grouping # Unset
    /\ RoutingCalled =>
          /\ vrp_inst # None
          /\ calls[Len(calls)].input = Get(vrp_inst)
          /\ RoutingCallIsLast
          /\ Len(packing_rows) = inst.N
    /\ vrp_res # None => RoutingCalled
    /\ result # Unset =>
          /\ grouping # Unset
          /\ vrp_res # None \/ Len(grouping.remaining_customers) = 0

\* a finished run of two customers, both packed by the solver, then routed
C23_Witness ==
    /\ Done /\ result # Unset
    /\ inst.N = 2 /\ BppCalled(1) /\ BppCalled(2)
    /\ RoutingCalled /\ vrp_res # None

----------------------------------------------------------------------------
\* the solver calls logged for customer c, and for routing
BppCallsOf(c) ==
    {k \in 1..Len(calls) : calls[k].solver = "bpp" /\ calls[k].customer = c}
VrpCalls == {k \in 1..Len(calls) : calls[k].solver = "vrp"}

\* at most one packing solve per customer, exactly one for a recorded
\* customer with items, at most one routing solve
CallsAreNotRepeated ==
    /\ \A c \in Customers : Cardinality(BppCallsOf(c)) <= 1
    /\ \A c \in Packed : OwnItems(c) # <<>> => Cardinality(BppCallsOf(c)) = 1
    /\ Cardinality(VrpCalls) <= 1
    /\ Len(calls) <= inst.N + 1

(* C24: no solver call is repeated: one run calls the packing solver at    *)
(* most once per customer, exactly once for each customer with items, and  *)
(* the routing solver at most once, whatever the solvers answer; and since *)
(* every call returns, the run ends with a result after at most N + 1      *)
(* solver calls.                                                           *)
C24_NoRetriesAndTermination ==
    /\ [](CallsAreNotRepeated)
    /\ <>(Done /\ result # Unset /\ Len(packing_rows) = inst.N
               /\ Len(calls) <= inst.N + 1)

\* a finished run of N + 1 = 3 solver calls in which a packing solve and the
\* routing solve gave no solution
C24_Witness ==
    /\ Done /\ result # Unset
    /\ inst.N = 2 /\ Len(calls) = 3
    /\ ~calls[1].res.has_solution
    /\ ~calls[3].res.has_solution

----------------------------------------------------------------------------
(* Vocabulary of the properties of run_grouped_heuristic_over_seeds: what  *)
(* one run on an instance gives, as a function of the instance, the        *)
(* configuration and the solvers' answers alone.                           *)

\* the answer of customer c's packing solve in a log of solver calls
BppAnswerIn(log, c) ==
    IF \E k \in 1..Len(log) : log[k].solver = "bpp" /\ log[k].customer = c
    THEN log[CHOOSE k \in 1..Len(log) :
                log[k].solver = "bpp" /\ log[k].customer = c].res
    ELSE NoSolution("UNKNOWN", 0)

StandalonePacking(instance, cf, log) ==
    [c \in 1..instance.N |->
        solve_bpp_for_customer(c, SizesRow(instance, c), instance.binCapacity,
                               cf.fallback_bpp, BppAnswerIn(log, c))]

StandaloneGrouping(instance, cf, log) ==
    LET rows == StandalonePacking(instance, cf, log)
    IN group_pallet_demands([c \in 1..instance.N |-> rows[c].pallets],
                            instance.Distance, instance.Capacity,
                            cf.treat_equal_capacity_as_fixed)

StandaloneReduced(instance, cf, log) ==
    LET g == StandaloneGrouping(instance, cf, log)
    IN IF Len(g.remaining_customers) > 0
       THEN Some(to_dict(build_reduced_vrp_instance(instance.Distance,
                    g.remaining_customers, g.remaining_demands,
                    instance.Capacity)))
       ELSE None

\* the solver calls a run on the instance makes: one packing solve for each
\* customer with items, in the order of the customers, then the routing
\* solve if a residual demand is left
StandaloneLogShape(instance, cf, log) ==
    LET g == StandaloneGrouping(instance, cf, log)
        withItems == {c \in 1..instance.N : SizesRow(instance, c) # <<>>}
        routed == IF Len(g.remaining_customers) > 0 THEN 1 ELSE 0
    IN /\ Len(log) = Cardinality(withItems) + routed
       /\ \A k \in 1..Cardinality(withItems) :
             /\ log[k].solver = "bpp"
             /\ log[k].customer \in withItems
             /\ \A j \in 1..(k - 1) : log[j].customer < log[k].customer
       /\ routed = 1 => log[Len(log)].solver = "vrp"

StandaloneBreakdown(instance, cf, log) ==
    LET g == StandaloneGrouping(instance, cf, log)
        last == log[Len(log)].res
    IN IF Len(g.remaining_customers) = 0
       THEN [fixed_cost |-> g.fixed_cost, routing_objective |-> Some(0),
             total_objective |-> Some(g.fixed_cost)]
       ELSE IF last.has_solution /\ last.objective # None
            THEN [fixed_cost |-> g.fixed_cost,
                  routing_objective |-> last.objective,
                  total_objective |-> Some(g.fixed_cost + Get(last.objective))]
            ELSE [fixed_cost |-> g.fixed_cost, routing_objective |-> None,
                  total_objective |-> None]

\* the i-th result is the one a run on the i-th instance alone gives
SameAsStandalone(i) ==
    LET instance == call.instances[i]
        log == ret[i].calls
        sol == ret[i].res.solution
    IN /\ StandaloneLogShape(instance, cfg, log)
       /\ sol.packing = StandalonePacking(instance, cfg, log)
       /\ sol.grouping = StandaloneGrouping(instance, cfg, log)
       /\ sol.vrp_instance = StandaloneReduced(instance, cfg, log)
       /\ sol.objective_breakdown = StandaloneBreakdown(instance, cfg, log)

\* the answers of the solvers in a log, without the elapsed times
AnswersOf(log) ==
    [k \in 1..Len(log) |->
        [solver |-> log[k].solver, customer |-> log[k].customer,
         status |-> log[k].res.status,
         has_solution |-> log[k].res.has_solution,
         objective |-> log[k].res.objective,
         solution |-> log[k].res.solution]]

\* the packing counts, grouping, reduced instance and objective breakdown
OutcomeOf(res) ==
    [counts |-> [c \in 1..Len(res.solution.packing) |->
                    res.solution.packing[c].pallets],
     grouping |-> res.solution.grouping,
     vrp_instance |-> res.solution.vrp_instance,
     objective_breakdown |-> res.solution.objective_breakdown]

(* C25: no state is carried from one run to the next.  Two runs on the     *)
(* same instance under the same configuration whose solvers give the same  *)
(* answers have the same packing counts, grouping, reduced instance and    *)
(* objective breakdown, whatever ran before; and the i-th result of        *)
(* run_grouped_heuristic_over_seeds is the one a run on the i-th instance  *)
(* alone gives.                                                            *)
C25_RunsShareNoState ==
    /\ \A i \in 1..Len(ret) : SameAsStandalone(i)
    /\ \A i, j \in 1..Len(ret) :
          (/\ call.instances[i] = call.instances[j]
           /\ AnswersOf(ret[i].calls) = AnswersOf(ret[j].calls))
          => OutcomeOf(ret[i].res) = OutcomeOf(ret[j].res)

\* two runs on different instances, in each of which solvers were called
C25_Witness ==
    /\ Len(ret) = 2
    /\ call.instances[1] # call.instances[2]
    /\ ret[1].calls # <<>> /\ ret[2].calls # <<>>
    /\ ret[2].res.has_solution

----------------------------------------------------------------------------
\* a step of the packing stage only appends: the rows and counts recorded
\* before it stay as they are
RecordedRowsKept ==
    /\ Len(packing_rows') >= Len(packing_rows)
    /\ Len(pallet_counts') >= Len(pallet_counts)
    /\ \A c \in 1..Len(packing_rows) : packing_rows'[c] = packing_rows[c]
    /\ \A c \in 1..Len(pallet_counts) : pallet_counts'[c] = pallet_counts[c]

(* C26: inputs and earlier artifacts are left as they were.  No step       *)
(* changes the instance (its Distance matrix and item arrays); the         *)
(* grouping step and the building of the reduced instance leave            *)
(* pallet_counts unchanged; once the packing stage is over every           *)
(* CustomerPacking stays unchanged; and once the GroupingResult exists,    *)
(* building and solving the reduced instance leave it unchanged.           *)
C26_InputsAndArtifactsUnchanged ==
    [][/\ inst' = inst
       /\ RecordedRowsKept
       /\ pc # "stage1" =>
             packing_rows' = packing_rows /\ pallet_counts' = pallet_counts
       /\ pc = "stage1" /\ pc' = "stage3" =>
             packing_rows' = packing_rows /\ pallet_counts' = pallet_counts
       /\ grouping # Unset => grouping' = grouping
       /\ vrp_inst # None => vrp_inst' = vrp_inst
       /\ result' # Unset =>
             /\ result'.solution.packing = packing_rows
             /\ result'.solution.grouping = grouping]_vars

\* a finished run with a direct trip and a routed residual demand
C26_Witness ==
    /\ Done /\ RoutingCalled
    /\ Len(packing_rows) = 2
    /\ grouping.fixed_cost > 0
    /\ Len(grouping.remaining_customers) > 0

----------------------------------------------------------------------------
\* the answer of the solver call made by the direct call
PackAnswer == calls[1].res

\* the direct call used a stand-in count: the solver was called and its
\* answer exposed no count
PackFellBack == calls # <<>> /\ extract_nbins(PackAnswer) = None

\* the statuses a solve result can carry
SolverStatuses == {"OPTIMAL_SOLUTION", "SATISFIED", "UNKNOWN", "UNSATISFIABLE"}

(* C27: every CustomerPacking carries a status string and an elapsed time. *)
(* When a fallback pallet count is used, the status is the solver's status *)
(* followed by the name of the applied fallback, so it is none of the      *)
(* plain statuses; the time is the elapsed time of the solver call; and no *)
(* bin assignment is reported.  Otherwise the status is a plain one.       *)
C27_FallbackIsMarked ==
    PackReturned =>
        /\ ret.bpp_time \in Nat
        /\ PackFellBack =>
              /\ PackAnswer.status \in SolverStatuses
              /\ ret.bpp_status =
                    PackAnswer.status \o " (fallback=" \o call.fallback \o ")"
              /\ ret.bpp_status \notin PlainStatuses
              /\ ret.pallets = FallbackOf(call.fallback)
              /\ ret.bpp_time = PackAnswer.time
              /\ ret.bin_of_item = None
              /\ ret.pallets_items = None
        /\ ~PackFellBack =>
              /\ ret.bpp_status \in PlainStatuses
              /\ calls # <<>> =>
                    /\ ret.bpp_status = PackAnswer.status
                    /\ ret.bpp_time = PackAnswer.time
                    /\ ret.pallets = Get(extract_nbins(PackAnswer))

\* a call on three items whose solver gave no count, under volume_lb
C27_Witness ==
    /\ PackReturned /\ PackFellBack
    /\ Len(call.item_sizes) = 3
    /\ call.fallback = "volume_lb"
    /\ ret.pallets < 3

----------------------------------------------------------------------------
\* both grouping implementations have returned for the call
PalletiseReturned == pc = "palletise_returned"

\* Distance[i][j] = Distance[j][i] over the depot and the customers
SymmetricDistance ==
    \A i, j \in 0..Len(ArgCounts) : call.distance[i][j] = call.distance[j][i]

\* the two implementations give customer c the same full trips and the
\* same residual demand
SameTreatment(c) ==
    /\ TripsOf(ret, c) = result.full_trips_per_customer[c]
    /\ IF result.remainder_per_customer[c] > 0
       THEN OneResidual(ret, c, result.remainder_per_customer[c])
       ELSE NoResidual(ret, c)

(* C28: for non-negative pallet counts, a positive Capacity and a          *)
(* symmetric Distance, palletise_and_group's fixed_cost,                   *)
(* remaining_customer_ids and remaining_demands equal                      *)
(* group_pallet_demands' fixed_cost, remaining_customers and               *)
(* remaining_demands under treat_equal_capacity_as_fixed = True; under the *)
(* default policy the two treat a customer differently exactly when its    *)
(* pallet count equals Capacity.                                           *)
C28_SiblingGroupingsAgree ==
    PalletiseReturned /\ WellFormedCall /\ SymmetricDistance =>
        /\ ArgFlag =>
              /\ result.fixed_cost = ret.fixed_cost
              /\ result.remaining_customer_ids = ret.remaining_customers
              /\ result.remaining_demands = ret.remaining_demands
        /\ ~ArgFlag =>
              \A c \in ArgCustomers : ~SameTreatment(c) <=> ArgCounts[c] = ArgQ

\* under the opt-in policy: a count equal to Capacity, a count above it with
\* a remainder, and a count below it
C28_Witness ==
    /\ PalletiseReturned /\ WellFormedCall /\ SymmetricDistance /\ ArgFlag
    /\ \E a, b, c \in ArgCustomers :
          /\ ArgCounts[a] = ArgQ
          /\ ArgCounts[b] > ArgQ /\ PyMod(ArgCounts[b], ArgQ) > 0
          /\ ArgCounts[c] > 0 /\ ArgCounts[c] < ArgQ
    /\ result.fixed_cost > 0

----------------------------------------------------------------------------
\* routing was skipped: grouping left no residual demand
RoutingSkipped == grouping # Unset /\ Len(grouping.remaining_customers) = 0

\* the routing solver answered with a solution that has no objective
SolutionWithoutObjective ==
    /\ vrp_res # None
    /\ Get(vrp_res).has_solution
    /\ Get(vrp_res).objective = None

(* C29: in every result, has_solution is True exactly when the objective   *)
(* is non-null, and that is exactly when routing was skipped or the        *)
(* routing solver returned has_solution = True with a non-null objective.  *)
(* A routing answer with a solution but a null objective is reported as a  *)
(* failure: it never reaches the composition of the total.                 *)
C29_SolutionIffObjective ==
    /\ SolutionWithoutObjective => pc = "done"
    /\ result # Unset =>
          /\ result.has_solution <=> result.objective # None
          /\ result.objective # None <=> (RoutingSkipped \/ RoutingSucceeded)
          /\ result.objective # None <=> Breakdown.total_objective # None
          /\ SolutionWithoutObjective =>
                /\ ~result.has_solution
                /\ result.objective = None
                /\ Breakdown.total_objective = None
                /\ Breakdown.fixed_cost = grouping.fixed_cost

\* a result for a routing answer that carries routes but no objective, on
\* top of a positive fixed cost
C29_Witness ==
    /\ result # Unset
    /\ SolutionWithoutObjective
    /\ grouping.fixed_cost > 0

----------------------------------------------------------------------------
\* the packing row of customer c holds a stand-in count
RowFellBack(c) == BppCalled(c) /\ extract_nbins(BppCallOf(c).res) = None

(* C30: the item sizes handed to the packing stage for customer c are      *)
(* exactly the positive entries among the first ItemsPerCustomer[c]        *)
(* entries of the customer's SizesOfItems row, in the order of the row.    *)
(* Padding zeros and entries after the first ItemsPerCustomer[c] reach     *)
(* neither the packing solver nor the fallback computation.                *)
C30_OnlyOwnPositiveItemsArePacked ==
    /\ \A c \in Packed :
          /\ packing_rows[c].item_sizes = OwnItems(c)
          /\ RowFellBack(c) =>
                packing_rows[c].pallets =
                   IF cfg.fallback_bpp = "volume_lb"
                   THEN CeilDiv(SumSeq(OwnItems(c)), inst.binCapacity)
                   ELSE Len(OwnItems(c))
    /\ \A k \in BppCalls :
          /\ calls[k].input.sizes = OwnItems(calls[k].customer)
          /\ calls[k].input.n = Len(OwnItems(calls[k].customer))
          /\ \A i \in 1..Len(calls[k].input.sizes) : calls[k].input.sizes[i] > 0

\* rows with a zero among the first ItemsPerCustomer entries and with sizes
\* after them have been packed, one of them with a stand-in count
C30_Witness ==
    /\ inst = StrayEntriesInstance
    /\ Len(packing_rows) = 2
    /\ packing_rows[1].item_sizes = <<2, 1>>
    /\ packing_rows[2].item_sizes = <<1>>
    /\ RowFellBack(1) /\ ~RowFellBack(2)

=============================================================================
